---- MODULE Spec2Model ----
(***************************************************************************)
(* A model of the AEO blog engine: the generation pipeline                 *)
(* (pipeline/blog_workflow.py), the service layer (services.py), the REST  *)
(* endpoints (api.py) and the session context manager                      *)
(* (database/session.py).                                                  *)
(*                                                                         *)
(* Python values are tagged records [t, v]: None, a str (a sequence of     *)
(* one-character strings), a list (a sequence of values) or a number.      *)
(* The bullet character U+2022 is written "U2022".                         *)
(***************************************************************************)
EXTENDS Integers, Sequences, FiniteSets, TLC

VARIABLES
    sigText,      \* _has_research_signal: the argument `text`
    sigResult,    \* _has_research_signal: the returned value ("unset" before the call)
    sigPc,        \* "input" before the call, "done" after it
    fbSubject,    \* _structured_fallback_research: the argument `subject`
    fbKb,         \* what the knowledge base does during the call
    fbResult,     \* the returned text (Unset before the call)
    sessUse,      \* get_session: the call site whose `with` block uses the session
    sessEnv,      \* what the body and the session's methods do during this use
    sessLog,      \* the calls made on the session so far, in order
    sessExc,      \* the exception in flight inside get_session (NoExc: none)
    sessPc,       \* the statement of get_session the use is at
    kbConfig,     \* knowledge_base.py: Config's API keys and QDRANT_URL, EMBEDDER_PROVIDER
    kbCached,     \* the module global _cached_vector_db
    kbMade,       \* objects constructed and probes made since the module was loaded
    kbLog,        \* the calls of get_knowledge_base so far: what each did and returned
    rcDb,         \* two concurrent requests: the committed blog rows
    rcUnique,     \* whether the blogs table rejects a second row of a pair
    rcThreads,    \* the two requests' threads: their session, position and locals
    pc,           \* the statement the request's thread is at
    req,          \* the request being served: its kind and its JSON body or arguments
    run,          \* locals of AEOBlogPipeline.run / run_social_post
    svc,          \* locals of generate_and_store_blog and _process_single_blog
    calls,        \* the agent calls of the pipeline method in progress, in order
    ret,          \* what the last finished call returned or raised
    db,           \* the committed blog rows
    db0,          \* the committed blog rows when the request arrived
    nAgentCalls,  \* agent calls made while serving the request
    nSessions,    \* database sessions opened while serving the request
    response      \* the HTTP response (status 0: none yet)

sigVars == <<sigText, sigResult, sigPc>>
fbVars == <<fbSubject, fbKb, fbResult>>
sessVars == <<sessUse, sessEnv, sessLog, sessExc, sessPc>>
kbVars == <<kbConfig, kbCached, kbMade, kbLog>>
raceVars == <<rcDb, rcUnique, rcThreads>>
fnVars == <<sigText, sigResult, sigPc, fbSubject, fbKb, fbResult, sessVars, kbVars, raceVars>>
appVars == <<pc, req, run, svc, calls, ret, db, db0, nAgentCalls, nSessions, response>>
vars == <<sigText, sigResult, sigPc, fbSubject, fbKb, fbResult, sessVars, kbVars, raceVars, pc, req, run, svc, calls, ret, db,
          db0, nAgentCalls, nSessions, response>>

-----------------------------------------------------------------------------
(* Python values *)

None == [t |-> "none", v |-> <<>>]
Str(s) == [t |-> "str", v |-> s]
List(l) == [t |-> "list", v |-> l]
Num(n) == [t |-> "int", v |-> <<n>>]

\* no value yet
Unset == [t |-> "unset", v |-> <<>>]

IsNone(x) == x.t = "none"
IsStr(x) == x.t = "str"
IsList(x) == x.t = "list"

\* bool(x): None, "", [] and 0 are falsy
Truthy(x) ==
    CASE x.t = "none" -> FALSE
      [] x.t = "int" -> x.v # <<0>>
      [] OTHER -> x.v # <<>>

-----------------------------------------------------------------------------
(* str methods, on sequences of characters *)

Whitespace == {" ", "\n", "\t", "\r"}

UpperAlpha ==
    <<"A","B","C","D","E","F","G","H","I","J","K","L","M",
      "N","O","P","Q","R","S","T","U","V","W","X","Y","Z">>
LowerAlpha ==
    <<"a","b","c","d","e","f","g","h","i","j","k","l","m",
      "n","o","p","q","r","s","t","u","v","w","x","y","z">>

UpperChars == {UpperAlpha[i] : i \in 1..Len(UpperAlpha)}
LowerOf ==
    [c \in UpperChars |-> LowerAlpha[CHOOSE i \in 1..Len(UpperAlpha) : UpperAlpha[i] = c]]

LowerChar(c) == IF c \in UpperChars THEN LowerOf[c] ELSE c

\* str.lower()
Lower(s) == [i \in 1..Len(s) |-> LowerChar(s[i])]

RECURSIVE LStrip(_)
LStrip(s) ==
    IF s # <<>> /\ Head(s) \in Whitespace THEN LStrip(Tail(s)) ELSE s

RECURSIVE RStrip(_)
RStrip(s) ==
    IF s # <<>> /\ s[Len(s)] \in Whitespace
    THEN RStrip(SubSeq(s, 1, Len(s) - 1))
    ELSE s

\* str.strip()
Strip(s) == RStrip(LStrip(s))

\* sub in s
Contains(s, sub) ==
    \E i \in 0..(Len(s) - Len(sub)) : \A j \in 1..Len(sub) : s[i + j] = sub[j]

\* s.startswith(p), s.endswith(p)
StartsWith(s, p) == Len(p) <= Len(s) /\ SubSeq(s, 1, Len(p)) = p
EndsWith(s, p) == Len(p) <= Len(s) /\ SubSeq(s, Len(s) - Len(p) + 1, Len(s)) = p

RECURSIVE Join(_, _)
\* sep.join(parts)
Join(sep, parts) ==
    IF parts = <<>> THEN <<>>
    ELSE IF Len(parts) = 1 THEN parts[1]
    ELSE parts[1] \o sep \o Join(sep, Tail(parts))

-----------------------------------------------------------------------------
(* AEOBlogPipeline.run: _has_research_signal *)

FailureMarkers ==
    << <<"c","a","n","n","o","t"," ","p","r","o","c","e","e","d">>,
       <<"r","e","s","e","a","r","c","h"," ","w","a","s"," ","n","o","t"," ","p","r","o","v","i","d","e","d">>,
       <<"m","i","s","s","i","n","g"," ","r","e","s","e","a","r","c","h">>,
       <<"n","e","e","d"," ","t","h","e"," ","r","e","s","e","a","r","c","h">>,
       <<"n","o"," ","r","e","s","e","a","r","c","h">>,
       <<"r","a","t","e"," ","l","i","m","i","t">>,
       <<"t","e","m","p","o","r","a","r","i","l","y"," ","u","n","a","v","a","i","l","a","b","l","e">>,
       <<"q","u","o","t","a">>,
       <<"i"," ","a","p","o","l","o","g","i","z","e">>,
       <<"c","a","n","n","o","t"," ","w","r","i","t","e"," ","t","h","e"," ","b","l","o","g">>,
       <<"w","i","t","h","o","u","t"," ","t","h","e"," ","r","e","s","e","a","r","c","h">>,
       <<"p","l","e","a","s","e"," ","p","r","o","v","i","d","e"," ","t","h","e"," ","r","e","s","e","a","r","c","h">>,
       <<"u","n","a","v","a","i","l","a","b","l","e"," ","r","i","g","h","t"," ","n","o","w">>,
       <<"t","r","y"," ","a","g","a","i","n"," ","l","a","t","e","r">> >>

SignalDelimiters ==
    << <<"\n","-">>,
       <<"\n","1",".">>,
       <<"\n","b","u","l","l","e","t">>,
       <<"\n","U2022">>,
       <<"?">>,
       <<".", " ">> >>

MinResearchLen == 40

\* normalized = (text or "").strip().lower()
Normalized(text) == Lower(Strip(IF Truthy(text) THEN text.v ELSE <<>>))

HasResearchSignalStrict(text) ==
    LET normalized == Normalized(text)
        delimiter_hits ==
            Cardinality({i \in 1..Len(SignalDelimiters) :
                            Contains(normalized, SignalDelimiters[i])})
    IN  IF normalized = <<>> THEN FALSE
        ELSE IF \E i \in 1..Len(FailureMarkers) : Contains(normalized, FailureMarkers[i])
        THEN FALSE
        ELSE IF Len(normalized) <= MinResearchLen THEN FALSE
        ELSE IF delimiter_hits = 0 THEN FALSE
        ELSE TRUE

HasResearchSignal(text) ==
    LET normalized == Normalized(text)
        delimiter_hits ==
            Cardinality({i \in 1..Len(SignalDelimiters) :
                            Contains(normalized, SignalDelimiters[i])})
    IN  IF normalized = <<>> THEN FALSE
        ELSE IF \E i \in 1..Len(FailureMarkers) : Contains(normalized, FailureMarkers[i])
        THEN FALSE
        ELSE IF Len(normalized) < MinResearchLen THEN FALSE
        ELSE IF delimiter_hits = 0 THEN FALSE
        ELSE TRUE

-----------------------------------------------------------------------------
(* Exceptions, call results, agents *)

NoExc == [kind |-> "none", msg |-> ""]
Exc(kind, msg) == [kind |-> kind, msg |-> msg]

Returned(v) == [exc |-> NoExc, value |-> v]
Raised(e) == [exc |-> e, value |-> None]

\* what an agent's run(...) may do: return a response with some content, or raise
AgentErrors == {Exc("RuntimeError", "quota exhausted")}

AgentOutcomes(contents) ==
    {[exc |-> NoExc, content |-> c] : c \in contents}
        \cup {[exc |-> e, content |-> None] : e \in AgentErrors}

\* nineteen characters of plain text
Filler19 ==
    <<"a","a","a","a","a","a","a","a","a","a","a","a","a","a","a","a","a","a","a">>

GoodResearch == <<" ">> \o Filler19 \o Filler19 \o <<"?", "?", "\n">>
ApologyResearch == Filler19 \o Filler19 \o <<"Q","u","o","t","a","?">>

ResearchContents == {None, Str(GoodResearch), Str(ApologyResearch)}
TopicContents == {None, Str(<<" ">>), Str(<<"g", " ">>)}
PlanContents == {Str(<<"p","l","a","n">>)}
DraftContents == {Str(<<"d","r","a","f","t">>)}
ReportContents == {Str(<<"r","e","p","o","r","t">>)}
FinalContents == {Str(<<"f","i","n","a","l">>)}

CallEntry(agent, prompt, out) ==
    [agent |-> agent, prompt |-> prompt, exc |-> out.exc, content |-> out.content]

-----------------------------------------------------------------------------
(* AEOBlogPipeline.run: _structured_fallback_research *)

MaxDocs == 2

ShortenWidth == 280
Placeholder == <<".", ".", ".">>

RECURSIVE Words(_)
\* str.split(): the maximal runs of non-whitespace characters
Words(s) ==
    LET t == LStrip(s)
    IN  IF t = <<>> THEN <<>>
        ELSE LET ends == {i \in 1..Len(t) : t[i] \in Whitespace}
                 n == IF ends = {} THEN Len(t) + 1
                      ELSE CHOOSE i \in ends : \A j \in ends : i <= j
             IN  <<SubSeq(t, 1, n - 1)>> \o Words(SubSeq(t, n, Len(t)))

\* textwrap.shorten(text, width, placeholder): whitespace collapsed, then whole
\* words dropped from the end until the text and the placeholder fit
Shorten(text, width, placeholder) ==
    LET ws == Words(text)
        full == Join(<<" ">>, ws)
        fits == {k \in 0..Len(ws) :
                    Len(Join(<<" ">>, SubSeq(ws, 1, k))) + Len(placeholder) <= width}
        k == IF fits = {} THEN 0 ELSE CHOOSE i \in fits : \A j \in fits : j <= i
    IN  IF Len(full) <= width THEN full
        ELSE Join(<<" ">>, SubSeq(ws, 1, k)) \o placeholder

\* str.replace("\n", " ")
ReplaceNewlines(s) == [i \in 1..Len(s) |-> IF s[i] = "\n" THEN " " ELSE s[i]]

StaticTitles ==
    << "Market Snapshot",
       "Adoption & Investment",
       "Audience Pain Points",
       "People-Also-Ask Style Questions",
       "Opportunities & Next Steps" >>

KbTitle == "Knowledge Base Highlights"

\* what get_knowledge_base() and kb.search(subject, limit=3) may do
KbDocContents == {None, Str(<<" ", "\n">>), Str(<<"k","b","\n"," ","f","a","c","t">>)}

KbOutcomes ==
    {[kind |-> k, docs |-> <<>>] :
        k \in {"get_knowledge_base raises", "search raises", "returns None"}}
    \cup {[kind |-> "returns docs", docs |-> d] :
            d \in UNION {[1..n -> KbDocContents] : n \in 0..MaxDocs}}

\* the knowledge-base outcomes met inside a pipeline run
RunKbOutcomes ==
    {[kind |-> "get_knowledge_base raises", docs |-> <<>>],
     [kind |-> "returns docs", docs |-> <<>>],
     [kind |-> "returns docs",
      docs |-> <<Str(<<" ", "\n">>), Str(<<"k","b","\n"," ","f","a","c","t">>)>>]}

RECURSIVE KbLines(_, _)
\* the loop over enumerate(kb_results or [], start=1), from document idx on
KbLines(docs, idx) ==
    IF idx > Len(docs) THEN <<>>
    ELSE LET raw == IF Truthy(docs[idx]) THEN docs[idx].v ELSE <<>>
         IN  IF Strip(raw) = <<>>
             THEN KbLines(docs, idx + 1)
             ELSE <<[idx |-> idx,
                     snippet |-> Shorten(Strip(ReplaceNewlines(raw)),
                                         ShortenWidth, Placeholder)]>>
                    \o KbLines(docs, idx + 1)

\* A text made of sections joined by blank lines is kept as the sequence of its
\* sections: a static section is its title and the subject interpolated into
\* its bullets, the knowledge-base section is its title and its lines.
StructuredFallbackResearchNoGuard(subject, kb) ==
    LET static_sections ==
            [i \in 1..Len(StaticTitles) |-> [title |-> StaticTitles[i], subject |-> subject]]
        kb_lines == IF kb.kind = "returns docs" THEN KbLines(kb.docs, 1) ELSE <<>>
    IN  [t |-> "sections",
         v |-> static_sections \o <<[title |-> KbTitle, lines |-> kb_lines]>>]

StructuredFallbackResearch(subject, kb) ==
    LET static_sections ==
            [i \in 1..Len(StaticTitles) |-> [title |-> StaticTitles[i], subject |-> subject]]
        kb_lines == IF kb.kind = "returns docs" THEN KbLines(kb.docs, 1) ELSE <<>>
    IN  [t |-> "sections",
         v |-> IF kb_lines # <<>>
               THEN static_sections \o <<[title |-> KbTitle, lines |-> kb_lines]>>
               ELSE static_sections]

-----------------------------------------------------------------------------
(* AEOBlogPipeline.run *)

RunIdle ==
    [caller |-> "none", topic |-> None, prompt |-> None, platform |-> None,
     research_summary |-> None, plan |-> None, draft |-> None,
     optimization_report |-> None, final |-> None, kb |-> "none"]

\* the call returns or raises to whoever made it
RunExit(r) ==
    /\ ret' = r
    /\ pc' = "run_exit"

\* line 27: if prompt and not topic
NeedsGeneratedTopicAnyPrompt(topic, prompt) == Truthy(prompt)
NeedsGeneratedTopic(topic, prompt) == Truthy(prompt) /\ ~Truthy(topic)

\* lines 16-34, up to the first agent call
Run_Begin ==
    /\ pc = "run_begin"
    /\ IF ~Truthy(run.topic) /\ ~Truthy(run.prompt)
       THEN RunExit(Raised(Exc("ValueError", "Either 'topic' or 'prompt' must be provided.")))
       ELSE /\ pc' = IF NeedsGeneratedTopic(run.topic, run.prompt)
                     THEN "run_topic" ELSE "run_research"
            /\ UNCHANGED ret
    /\ UNCHANGED <<req, run, svc, calls, db, nAgentCalls, nSessions, response>>
    /\ UNCHANGED <<fnVars, db0>>

\* lines 27-32: topic_generator.run(...); topic = content.strip()
Run_GenerateTopic ==
    /\ pc = "run_topic"
    /\ \E out \in AgentOutcomes(TopicContents) :
        /\ calls' = Append(calls, CallEntry("topic_generator", run.prompt, out))
        /\ nAgentCalls' = nAgentCalls + 1
        /\ IF out.exc # NoExc
           THEN RunExit(Raised(out.exc)) /\ UNCHANGED run
           ELSE IF ~IsStr(out.content)
           THEN /\ RunExit(Raised(Exc("AttributeError", "'NoneType' object has no attribute 'strip'")))
                /\ UNCHANGED run
           ELSE /\ run' = [run EXCEPT !.topic = Str(Strip(out.content.v))]
                /\ pc' = "run_research"
                /\ UNCHANGED ret
    /\ UNCHANGED <<req, svc, db, nSessions, response>>
    /\ UNCHANGED <<fnVars, db0>>

\* after line 108 / line 121: where the run goes with this research summary
AfterFirstResearchNoRetry(summary) == "run_plan"
AfterFirstResearch(summary) ==
    IF ~HasResearchSignal(summary) THEN "run_retry" ELSE "run_plan"

AfterRetryNoFallback(summary) == "run_plan"
AfterRetry(summary) ==
    IF ~HasResearchSignal(summary) THEN "run_fallback" ELSE "run_plan"

\* lines 104-108: researcher.run(...); research_summary = (content or "").strip()
Run_Research ==
    /\ pc = "run_research"
    /\ \E out \in AgentOutcomes(ResearchContents) :
        /\ calls' = Append(calls, CallEntry("researcher", [text |-> "research", topic |-> run.topic], out))
        /\ nAgentCalls' = nAgentCalls + 1
        /\ IF out.exc # NoExc
           THEN RunExit(Raised(out.exc)) /\ UNCHANGED run
           ELSE LET summary == Str(Strip(IF Truthy(out.content) THEN out.content.v ELSE <<>>))
                IN  /\ run' = [run EXCEPT !.research_summary = summary]
                    /\ pc' = AfterFirstResearch(summary)
                    /\ UNCHANGED ret
    /\ UNCHANGED <<req, svc, db, nSessions, response>>
    /\ UNCHANGED <<fnVars, db0>>

\* lines 109-121: the retry with the fallback prompt; an exception is swallowed
Run_RetryResearch ==
    /\ pc = "run_retry"
    /\ \E out \in AgentOutcomes(ResearchContents) :
        /\ calls' = Append(calls, CallEntry("researcher", [text |-> "fallback", topic |-> run.topic], out))
        /\ nAgentCalls' = nAgentCalls + 1
        /\ LET summary ==
                IF out.exc # NoExc THEN run.research_summary
                ELSE Str(Strip(IF Truthy(out.content) THEN out.content.v ELSE <<>>))
           IN  /\ run' = [run EXCEPT !.research_summary = summary]
               /\ pc' = AfterRetry(summary)
    /\ UNCHANGED <<req, svc, ret, db, nSessions, response>>
    /\ UNCHANGED <<fnVars, db0>>

\* lines 121-123: research_summary = _structured_fallback_research(topic)
Run_Fallback ==
    /\ pc = "run_fallback"
    /\ \E kb \in RunKbOutcomes :
        run' = [run EXCEPT !.research_summary = StructuredFallbackResearch(run.topic, kb),
                           !.kb = kb]
    /\ pc' = "run_plan"
    /\ UNCHANGED <<req, svc, calls, ret, db, nAgentCalls, nSessions, response>>
    /\ UNCHANGED <<fnVars, db0>>

\* one of the four later stages: the agent is called with `prompt`; its content
\* is stored in the local `field` and the run moves on to `next`
Stage(at, agent, prompt, contents, field, next) ==
    /\ pc = at
    /\ \E out \in AgentOutcomes(contents) :
        /\ calls' = Append(calls, CallEntry(agent, prompt, out))
        /\ nAgentCalls' = nAgentCalls + 1
        /\ IF out.exc # NoExc
           THEN RunExit(Raised(out.exc)) /\ UNCHANGED run
           ELSE /\ run' = [run EXCEPT ![field] = out.content, !.kb = "none"]
                /\ IF next = "run_exit"
                   THEN RunExit(Returned(out.content))
                   ELSE pc' = next /\ UNCHANGED ret
    /\ UNCHANGED <<req, svc, db, nSessions, response>>
    /\ UNCHANGED <<fnVars, db0>>

\* lines 125-129
Run_Plan ==
    Stage("run_plan", "planner",
          [text |-> "plan", topic |-> run.topic, research |-> run.research_summary],
          PlanContents, "plan", "run_write")

\* lines 131-135
Run_Write ==
    Stage("run_write", "writer",
          [text |-> "write", topic |-> run.topic, plan |-> run.plan,
           research |-> run.research_summary],
          DraftContents, "draft", "run_optimize")

\* lines 137-141
Run_Optimize ==
    Stage("run_optimize", "optimizer", [text |-> "optimize", draft |-> run.draft],
          ReportContents, "optimization_report", "run_finalize")

\* lines 143-195: the finalizer, the token accounting (its failures are
\* swallowed), and the return of final_response.content
Run_Finalize ==
    Stage("run_finalize", "finalizer",
          [text |-> "finalize", draft |-> run.draft, report |-> run.optimization_report],
          FinalContents, "final", "run_exit")

-----------------------------------------------------------------------------
(* database package: the Blog rows and the operations services.py calls *)

MakeEntry(topic, is_prompt) == [content |-> topic, is_prompt |-> is_prompt]

\* Blog.entry_contents
EntryContents(topics) == {topics[i].content : i \in 1..Len(topics)}

\* the index of the first row of the pair, 0 when there is none
GetBlogByUserAndCompany(d, user_id, company_url) ==
    LET hits == {i \in 1..Len(d) : d[i].user_id = user_id /\ d[i].company_url = company_url}
    IN  IF hits = {} THEN 0 ELSE CHOOSE i \in hits : \A j \in hits : i <= j

CreateBlogEntry(d, user_id, topic, company_url, status, is_prompt) ==
    Append(d, [id |-> Len(d) + 1, user_id |-> user_id, company_url |-> company_url,
               topic |-> <<MakeEntry(topic, is_prompt)>>, status |-> status,
               blog_content |-> None, social |-> <<>>])

\* update_blog_status(session, blog_id, status=..., blog_content=...)
UpdateBlogStatus(d, blog_id, status, blog_content) ==
    [d EXCEPT ![blog_id].status = status,
              ![blog_id].blog_content = IF IsNone(blog_content) THEN @ ELSE blog_content]

AppendSocialPost(d, blog_id, platform, content, topic) ==
    [d EXCEPT ![blog_id].social =
        Append(@, [platform |-> platform, content |-> content, topic |-> topic])]

\* Blog.to_dict
ToDict(row) == [t |-> "dict", v |-> row]

-----------------------------------------------------------------------------
(* database/session.py: get_session *)

DbError == Exc("OperationalError", "database unavailable")

\* where a use of the session may fail: nowhere, in the body, or at commit
DbFaults == {"none", "body", "commit"}

\* the calls get_session makes on its session when the body or the commit
\* fails as `fault` says, and the exception it lets through
GetSession(fault) ==
    [commits |-> IF fault = "body" THEN 0 ELSE 1,
     rollbacks |-> IF fault = "none" THEN 0 ELSE 1,
     closes |-> 1,
     exc |-> IF fault = "none" THEN NoExc ELSE DbError]

\* a use of get_session by _process_single_blog, as kept in its session log
SessionUse(use, fault) == [use |-> use, fault |-> fault]

\* the rows after the session: the body's writes when committed, else untouched
AfterSession(before, written, fault) ==
    IF GetSession(fault).rollbacks = 0 THEN written ELSE before

-----------------------------------------------------------------------------
(* services.py: _get_or_create_blog *)

GetOrCreateBlog(d, user_id, company_url, topic, is_prompt) ==
    LET blog == GetBlogByUserAndCompany(d, user_id, company_url)
    IN  IF blog # 0
        THEN [id |-> blog,
              db |-> IF Truthy(topic) /\ topic \notin EntryContents(d[blog].topic)
                     THEN [d EXCEPT ![blog].topic = Append(@, MakeEntry(topic, is_prompt))]
                     ELSE d]
        ELSE [id |-> Len(d) + 1,
              db |-> CreateBlogEntry(d, user_id, topic, company_url, "PENDING", is_prompt)]

-----------------------------------------------------------------------------
(* JSON bodies: a dict is a record of its fields, an absent key is Missing *)

Missing == [t |-> "missing", v |-> <<>>]

\* dict.get(key) and dict.get(key, default)
Get(d, k) == IF d[k].t = "missing" THEN None ELSE d[k]
GetOr(d, k, default) == IF d[k].t = "missing" THEN default ELSE d[k]

\* str literals of the model
S_false == Str(<<"f","a","l","s","e">>)
S_true == Str(<<"t","r","u","e">>)

-----------------------------------------------------------------------------
(* services.py: generate_and_store_blog, the prompt that may be a list *)

ParseFail == [ok |-> FALSE, items |-> <<>>]

RECURSIVE ParseItems(_, _, _, _)
\* the items of a list literal of quoted strings, from the text after "[" or
\* after a comma; `quotes` are the quote characters the parser accepts
ParseItems(s, quotes, trailingComma, atStart) ==
    LET u == LStrip(s)
    IN  IF u = <<>>
        THEN IF atStart \/ trailingComma THEN [ok |-> TRUE, items |-> <<>>] ELSE ParseFail
        ELSE IF Head(u) \notin quotes THEN ParseFail
        ELSE LET q == Head(u)
                 rest == Tail(u)
                 closing == {i \in 1..Len(rest) : rest[i] = q}
             IN  IF closing = {} THEN ParseFail
                 ELSE LET c == CHOOSE i \in closing : \A j \in closing : i <= j
                          item == Str(SubSeq(rest, 1, c - 1))
                          after == LStrip(SubSeq(rest, c + 1, Len(rest)))
                      IN  IF after = <<>> THEN [ok |-> TRUE, items |-> <<item>>]
                          ELSE IF Head(after) # "," THEN ParseFail
                          ELSE LET more == ParseItems(Tail(after), quotes, trailingComma, FALSE)
                               IN  IF more.ok
                                   THEN [ok |-> TRUE, items |-> <<item>> \o more.items]
                                   ELSE ParseFail

ParseListLiteral(s, quotes, trailingComma) ==
    LET u == Strip(s)
    IN  IF Len(u) < 2 \/ Head(u) # "[" \/ u[Len(u)] # "]" THEN ParseFail
        ELSE ParseItems(SubSeq(u, 2, Len(u) - 1), quotes, trailingComma, TRUE)

\* ast.literal_eval (Python 3.10 and later strip the leading blanks), json.loads
AstLiteralEval(s) == ParseListLiteral(s, {"'", "\""}, TRUE)
JsonLoads(s) == ParseListLiteral(s, {"\""}, FALSE)

\* lines 123-145
ParsedPrompt(prompt) ==
    IF IsStr(prompt) /\ StartsWith(Strip(prompt.v), <<"[">>) /\ EndsWith(Strip(prompt.v), <<"]">>)
    THEN IF AstLiteralEval(prompt.v).ok THEN List(AstLiteralEval(prompt.v).items)
         ELSE IF JsonLoads(prompt.v).ok THEN List(JsonLoads(prompt.v).items)
         ELSE prompt
    ELSE prompt

\* lines 151-155: sub_payload = payload.copy(); sub_payload["prompt"] = p;
\* del sub_payload["topic"]
SubPayloadKeepTopic(payload, p) == [payload EXCEPT !.prompt = p]
SubPayload(payload, p) == [payload EXCEPT !.prompt = p, !.topic = Missing]

\* the caller's dict after the writes to sub_payload: payload.copy() made
\* sub_payload a dict of its own
CallerPayload(payload, sub_payload) == payload

-----------------------------------------------------------------------------
(* services.py: _process_single_blog *)

SvcIdle ==
    [payload |-> None, sub_payload |-> None, mode |-> "none", prompts |-> <<>>,
     idx |-> 0, results |-> <<>>, topic |-> None, is_prompt |-> None,
     blog_id |-> 0, created |-> FALSE, exc |-> NoExc, sessions |-> <<>>]

PsbExit(r) ==
    /\ ret' = r
    /\ pc' = "psb_exit"

\* lines 65-76: the topic is checked and the locals are set; then the first
\* session is next
PsbPrepare(topic, prompt) ==
    LET p == svc.sub_payload
    IN  IF ~Truthy(topic) \/ Strip(topic.v) = <<>>
        THEN /\ PsbExit(Raised(Exc("ValueError",
                        "Topic is missing or could not be generated from prompt.")))
             /\ UNCHANGED svc
        ELSE /\ svc' = [svc EXCEPT
                           !.topic = Str(Strip(topic.v)),
                           !.is_prompt = IF Truthy(prompt) THEN S_true
                                         ELSE GetOr(p, "is_prompt", S_false)]
             /\ pc' = "psb_session"
             /\ UNCHANGED ret

\* lines 52-76 when no topic has to be generated, lines 52-62 otherwise
PSB_Begin ==
    /\ pc = "psb_begin"
    /\ LET topic == Get(svc.sub_payload, "topic")
           prompt == Get(svc.sub_payload, "prompt")
       IN  IF ~Truthy(topic) /\ ~Truthy(prompt)
           THEN /\ PsbExit(Raised(Exc("ValueError", "Missing required field: 'topic' or 'prompt'")))
                /\ UNCHANGED svc
           ELSE IF Truthy(prompt) /\ ~Truthy(topic)
           THEN pc' = "psb_topic" /\ UNCHANGED <<svc, ret>>
           ELSE PsbPrepare(topic, prompt)
    /\ UNCHANGED <<req, run, calls, db, nAgentCalls, nSessions, response>>
    /\ UNCHANGED <<fnVars, db0>>

\* line 62: pipeline.generate_topic_only(prompt) (blog_workflow.py 197-201),
\* then lines 65-76
PSB_GenerateTopic ==
    /\ pc = "psb_topic"
    /\ \E out \in AgentOutcomes(TopicContents) :
        /\ calls' = <<CallEntry("topic_generator", Get(svc.sub_payload, "prompt"), out)>>
        /\ nAgentCalls' = nAgentCalls + 1
        /\ IF out.exc # NoExc
           THEN PsbExit(Raised(out.exc)) /\ UNCHANGED svc
           ELSE IF ~IsStr(out.content)
           THEN /\ PsbExit(Raised(Exc("AttributeError", "'NoneType' object has no attribute 'strip'")))
                /\ UNCHANGED svc
           ELSE PsbPrepare(Str(Strip(out.content.v)), Get(svc.sub_payload, "prompt"))
    /\ UNCHANGED <<req, run, db, nSessions, response>>
    /\ UNCHANGED <<fnVars, db0>>

\* lines 78-93: the blog row is looked up or created in a session of its own;
\* then pipeline.run(topic) is called
PSB_OpenBlog ==
    /\ pc = "psb_session"
    /\ nSessions' = nSessions + 1
    /\ \E fault \in DbFaults :
        LET got == GetOrCreateBlog(db, Str(Strip(Get(svc.sub_payload, "user_id").v)),
                                   Str(Strip(Get(svc.sub_payload, "company_url").v)),
                                   svc.topic, svc.is_prompt)
        IN  /\ db' = AfterSession(db, got.db, fault)
            /\ IF GetSession(fault).exc # NoExc
               THEN /\ PsbExit(Raised(GetSession(fault).exc))
                    /\ svc' = [svc EXCEPT !.sessions = Append(@, SessionUse("open", fault))]
                    /\ UNCHANGED <<run, calls>>
               ELSE /\ svc' = [svc EXCEPT !.blog_id = got.id,
                                          !.created = (got.id > Len(db)),
                                          !.sessions = Append(@, SessionUse("open", fault))]
                    /\ run' = [RunIdle EXCEPT !.caller = "psb", !.topic = svc.topic]
                    /\ calls' = <<>>
                    /\ pc' = "run_begin"
                    /\ UNCHANGED ret
    /\ UNCHANGED <<req, nAgentCalls, response>>
    /\ UNCHANGED <<fnVars, db0>>

\* lines 94-105: the row is updated in a second session and returned
PSB_StoreCompleted ==
    /\ pc = "run_exit"
    /\ run.caller = "psb"
    /\ ret.exc = NoExc
    /\ nSessions' = nSessions + 1
    /\ \E fault \in DbFaults :
        LET written == UpdateBlogStatus(db, svc.blog_id, "COMPLETED", ret.value)
        IN  /\ db' = AfterSession(db, written, fault)
            /\ IF GetSession(fault).exc # NoExc
               THEN /\ svc' = [svc EXCEPT
                                  !.exc = GetSession(fault).exc,
                                  !.sessions = Append(@, SessionUse("completed", fault))]
                    /\ pc' = "psb_failed"
                    /\ ret' = Returned(None)
               ELSE /\ PsbExit(Returned(ToDict(written[svc.blog_id])))
                    /\ svc' = [svc EXCEPT
                                  !.sessions = Append(@, SessionUse("completed", fault))]
    /\ run' = RunIdle
    /\ calls' = <<>>
    /\ UNCHANGED <<req, nAgentCalls, response>>
    /\ UNCHANGED <<fnVars, db0>>

\* what the except block of lines 106-113 leaves in the session
MarkFailed(d, blog_id) == UpdateBlogStatus(d, blog_id, "FAILED", None)

\* lines 106-113: the row is marked FAILED in a third session, then raise exc
PSB_StoreFailed ==
    /\ \/ pc = "psb_failed"
       \/ pc = "run_exit" /\ run.caller = "psb" /\ ret.exc # NoExc
    /\ nSessions' = nSessions + 1
    /\ LET exc == IF pc = "run_exit" THEN ret.exc ELSE svc.exc
       IN  /\ \E fault \in DbFaults :
                /\ svc' = [svc EXCEPT !.exc = exc,
                                      !.sessions = Append(@, SessionUse("failed", fault))]
                /\ db' = AfterSession(db, MarkFailed(db, svc.blog_id), fault)
                /\ IF GetSession(fault).exc # NoExc
                   THEN PsbExit(Raised(GetSession(fault).exc))
                   ELSE PsbExit(Raised(exc))
    /\ run' = RunIdle
    /\ calls' = <<>>
    /\ UNCHANGED <<req, nAgentCalls, response>>
    /\ UNCHANGED <<fnVars, db0>>

-----------------------------------------------------------------------------
(* services.py: generate_and_store_blog *)

MaxPrompts == 2

GsbExit(r) ==
    /\ ret' = r
    /\ pc' = "gsb_exit"

\* lines 117-121: the message of the ValueError for a missing required
\* field, "" when both are there
MissingFieldCompanyOnly(payload) ==
    IF ~Truthy(Get(payload, "company_url")) THEN "Missing required field: 'company_url'"
    ELSE ""
MissingField(payload) ==
    IF ~Truthy(Get(payload, "company_url")) THEN "Missing required field: 'company_url'"
    ELSE IF ~Truthy(Get(payload, "user_id")) THEN "Missing required field: 'user_id'"
    ELSE ""

\* lines 116-147 and 162: the required fields, the prompt, and where to go
GSB_Begin ==
    /\ pc = "gsb_begin"
    /\ IF MissingField(svc.payload) # ""
       THEN /\ GsbExit(Raised(Exc("ValueError", MissingField(svc.payload))))
            /\ UNCHANGED svc
       ELSE LET prompt == ParsedPrompt(Get(svc.payload, "prompt"))
            IN  IF IsList(prompt)
                THEN /\ svc' = [svc EXCEPT !.mode = "list", !.prompts = prompt.v,
                                           !.idx = 1, !.results = <<>>]
                     /\ pc' = "gsb_item"
                     /\ UNCHANGED ret
                ELSE /\ svc' = [svc EXCEPT !.mode = "single", !.sub_payload = svc.payload]
                     /\ pc' = "psb_begin"
                     /\ UNCHANGED ret
    /\ UNCHANGED <<req, run, calls, db, nAgentCalls, nSessions, response>>
    /\ UNCHANGED <<fnVars, db0>>

\* lines 149-156 and 160: the next prompt of the list is handed to
\* _process_single_blog in a copy of the payload; after the last one the
\* results are returned
GSB_Item ==
    /\ pc = "gsb_item"
    /\ IF svc.idx > Len(svc.prompts)
       THEN /\ GsbExit(Returned(List(svc.results)))
            /\ UNCHANGED svc
       ELSE LET sub == SubPayload(svc.payload, svc.prompts[svc.idx])
            IN  /\ svc' = [svc EXCEPT !.sub_payload = sub,
                                      !.payload = CallerPayload(svc.payload, sub)]
                /\ pc' = "psb_begin"
                /\ UNCHANGED ret
    /\ UNCHANGED <<req, run, calls, db, nAgentCalls, nSessions, response>>
    /\ UNCHANGED <<fnVars, db0>>

\* the dict appended for an item whose processing raised (line 159)
FailedResult(p, exc) ==
    [t |-> "dict", v |-> [prompt |-> p, error |-> exc.msg, status |-> "FAILED"]]

\* the results after an item: lines 156-159
ResultsAfterItem(results, p, r) ==
    Append(results, IF r.exc = NoExc THEN r.value ELSE FailedResult(p, r.exc))

\* lines 156-159: what the item returned, or the FAILED entry for what it raised
GSB_ItemDone ==
    /\ pc = "psb_exit"
    /\ svc.mode = "list"
    /\ svc' = [SvcIdle EXCEPT
                  !.payload = svc.payload, !.mode = "list", !.prompts = svc.prompts,
                  !.idx = svc.idx + 1,
                  !.results = ResultsAfterItem(svc.results, svc.prompts[svc.idx], ret)]
    /\ ret' = Returned(None)
    /\ calls' = <<>>
    /\ pc' = "gsb_item"
    /\ UNCHANGED <<req, run, db, nAgentCalls, nSessions, response>>
    /\ UNCHANGED <<fnVars, db0>>

\* line 162: return _process_single_blog(payload)
GSB_SingleDone ==
    /\ pc = "psb_exit"
    /\ svc.mode = "single"
    /\ pc' = "gsb_exit"
    /\ UNCHANGED <<req, run, svc, calls, ret, db, nAgentCalls, nSessions, response>>
    /\ UNCHANGED <<fnVars, db0>>

-----------------------------------------------------------------------------
(* AEOBlogPipeline.run_social_post *)

S_reddit == <<"r","e","d","d","i","t">>
S_linkedin == <<"l","i","n","k","e","d","i","n">>
S_twitter == <<"t","w","i","t","t","e","r">>

RspExit(r) ==
    /\ ret' = r
    /\ pc' = "rsp_exit"

\* lines 209-217
RSP_Research ==
    /\ pc = "rsp_research"
    /\ \E out \in AgentOutcomes(ResearchContents) :
        /\ calls' = Append(calls, CallEntry("researcher", [text |-> "social research", topic |-> run.topic], out))
        /\ nAgentCalls' = nAgentCalls + 1
        /\ IF out.exc # NoExc
           THEN RspExit(Raised(out.exc)) /\ UNCHANGED run
           ELSE IF ~IsStr(out.content)
           THEN /\ RspExit(Raised(Exc("TypeError", "object of type 'NoneType' has no len()")))
                /\ UNCHANGED run
           ELSE /\ run' = [run EXCEPT !.research_summary = out.content]
                /\ pc' = "rsp_write"
                /\ UNCHANGED ret
    /\ UNCHANGED <<req, svc, db, nSessions, response>>
    /\ UNCHANGED <<fnVars, db0>>

\* lines 222-229: the writer for the platform, "" when it is not supported
WriterForAnyPlatform(platform) == "twitter_agent"
WriterFor(platform) ==
    CASE Lower(platform.v) = S_reddit -> "reddit_agent"
      [] Lower(platform.v) = S_linkedin -> "linkedin_agent"
      [] Lower(platform.v) = S_twitter -> "twitter_agent"
      [] OTHER -> ""

\* lines 219-238
RSP_Write ==
    /\ pc = "rsp_write"
    /\ IF WriterFor(run.platform) = ""
       THEN /\ RspExit(Raised(Exc("ValueError", "Unsupported platform")))
            /\ UNCHANGED <<run, calls, nAgentCalls>>
       ELSE \E out \in AgentOutcomes(DraftContents) :
            /\ calls' = Append(calls, CallEntry(WriterFor(run.platform),
                                [text |-> "social write", topic |-> run.topic,
                                 research |-> run.research_summary], out))
            /\ nAgentCalls' = nAgentCalls + 1
            /\ IF out.exc # NoExc
               THEN RspExit(Raised(out.exc)) /\ UNCHANGED run
               ELSE /\ run' = [run EXCEPT !.draft = out.content]
                    /\ pc' = "rsp_qa"
                    /\ UNCHANGED ret
    /\ UNCHANGED <<req, svc, db, nSessions, response>>
    /\ UNCHANGED <<fnVars, db0>>

\* lines 240-279: the QA agent, the token accounting (its failures are
\* swallowed), and the return of the QA agent's content
RSP_QA ==
    /\ pc = "rsp_qa"
    /\ \E out \in AgentOutcomes(FinalContents) :
        /\ calls' = Append(calls, CallEntry("social_qa_agent",
                            [text |-> "social qa", platform |-> run.platform,
                             draft |-> run.draft], out))
        /\ nAgentCalls' = nAgentCalls + 1
        /\ IF out.exc # NoExc
           THEN RspExit(Raised(out.exc))
           ELSE RspExit(Returned(out.content))
    /\ UNCHANGED <<req, run, svc, db, nSessions, response>>
    /\ UNCHANGED <<fnVars, db0>>

-----------------------------------------------------------------------------
(* api.py: POST /blogs *)

NotDict == List(<<>>)
Dict(fields) == [t |-> "dict", v |-> fields]

CompanyUrls == {Missing, Str(<<>>), Str(<<"c", " ">>)}
UserIds == {Missing, Str(<<>>), Str(<<"u">>)}
BlogTopics == {Missing, Str(<<>>), Str(<<" ">>), Str(<<"t", " ">>)}

PromptItems == {Str(<<>>), Str(<<"p">>)}

BlogPrompts ==
    {Missing, Str(<<>>), Str(<<"p">>)}
    \cup {List(l) : l \in UNION {[1..n -> PromptItems] : n \in 0..MaxPrompts}}
    \cup {Str(<<"[", "'", "p", "'", ",", " ", "\"", "\"", "]">>),
          Str(<<" ", "[", "\"", "p", "\"", "]", "\n">>),
          Str(<<"[", "p", "]">>)}

BlogBodies ==
    {NotDict}
    \cup {Dict([company_url |-> c, user_id |-> u, topic |-> t, prompt |-> p,
                is_prompt |-> Missing]) :
            c \in CompanyUrls, u \in UserIds, t \in BlogTopics, p \in BlogPrompts}

NoResponse == [status |-> 0]

\* lines 132-136: the body is read; a body that is no object is answered 400,
\* any other is handed to generate_and_store_blog
CreateBlog_Begin ==
    /\ pc = "idle"
    /\ \E body \in BlogBodies :
        /\ req' = [kind |-> "POST /blogs", body |-> body]
        /\ IF body.t # "dict"
           THEN /\ response' = [status |-> 400]
                /\ pc' = "done"
                /\ UNCHANGED svc
           ELSE /\ svc' = [SvcIdle EXCEPT !.payload = body.v]
                /\ pc' = "gsb_begin"
                /\ UNCHANGED response
    /\ UNCHANGED <<run, calls, ret, db, nAgentCalls, nSessions>>
    /\ UNCHANGED <<fnVars, db0>>

\* lines 137-149: the status for what generate_and_store_blog did
CreateBlogStatusAlways201(r) == 201
CreateBlogStatus(r) ==
    IF r.exc = NoExc THEN 201
    ELSE IF r.exc.kind = "ValueError" THEN 400
    ELSE IF r.exc.kind = "RuntimeError" THEN 429
    ELSE 500

CreateBlog_Respond ==
    /\ pc = "gsb_exit"
    /\ response' = [status |-> CreateBlogStatus(ret)]
    /\ pc' = "done"
    /\ UNCHANGED <<req, run, svc, calls, ret, db, nAgentCalls, nSessions>>
    /\ UNCHANGED <<fnVars, db0>>

-----------------------------------------------------------------------------
(* api.py: POST /generate-social; services.py: store_social_post *)

SocialTopics == {Missing, Str(<<>>), Str(<<"t">>)}
SocialPlatforms ==
    {Missing, Str(<<>>), Str(<<"R","e","d","d","i","t">>), Str(S_linkedin),
     Str(S_twitter), Str(<<"f","a","c","e","b","o","o","k">>), Num(5)}

SocialBodies ==
    {NotDict}
    \cup {Dict([topic |-> t, platform |-> p, user_id |-> u, company_url |-> c]) :
            t \in SocialTopics, p \in SocialPlatforms,
            u \in {Missing, Str(<<"u">>)}, c \in {Missing, Str(<<"c">>)}}

ValidPlatforms == {S_reddit, S_linkedin, S_twitter}

\* lines 158-173: 0 when the request goes on to the pipeline, else the status
\* it is answered with (500: platform.lower() raises outside the try block)
SocialValidationAnyPlatform(body) ==
    IF body.t # "dict" THEN 400
    ELSE IF \/ ~Truthy(Get(body.v, "topic"))
            \/ ~Truthy(Get(body.v, "platform"))
            \/ ~Truthy(Get(body.v, "user_id"))
            \/ ~Truthy(Get(body.v, "company_url"))
    THEN 400
    ELSE IF ~IsStr(Get(body.v, "platform")) THEN 500
    ELSE 0

SocialValidation(body) ==
    IF body.t # "dict" THEN 400
    ELSE IF \/ ~Truthy(Get(body.v, "topic"))
            \/ ~Truthy(Get(body.v, "platform"))
            \/ ~Truthy(Get(body.v, "user_id"))
            \/ ~Truthy(Get(body.v, "company_url"))
    THEN 400
    ELSE IF ~IsStr(Get(body.v, "platform")) THEN 500
    ELSE IF Lower(Get(body.v, "platform").v) \notin ValidPlatforms THEN 400
    ELSE 0

\* lines 152-177
GenerateSocial_Begin ==
    /\ pc = "idle"
    /\ \E body \in SocialBodies :
        /\ req' = [kind |-> "POST /generate-social", body |-> body]
        /\ IF SocialValidation(body) # 0
           THEN /\ response' = [status |-> SocialValidation(body)]
                /\ pc' = "done"
                /\ UNCHANGED run
           ELSE /\ run' = [RunIdle EXCEPT !.caller = "api", !.topic = Get(body.v, "topic"),
                                         !.platform = Get(body.v, "platform")]
                /\ pc' = "rsp_research"
                /\ UNCHANGED response
    /\ UNCHANGED <<svc, calls, ret, db, nAgentCalls, nSessions>>
    /\ UNCHANGED <<fnVars, db0>>

\* services.py 181-194: the rows store_social_post writes
StoreSocialPost(d, user_id, company_url, topic, platform, content) ==
    LET got == GetOrCreateBlog(d, user_id, company_url, topic, S_false)
    IN  AppendSocialPost(got.db, got.id, platform, content, topic)

\* lines 178-195: the post run_social_post returned is stored and answered
\* 200; a RuntimeError is answered 429 and any other exception 500
GenerateSocial_Store ==
    /\ pc = "rsp_exit"
    /\ run.caller = "api"
    /\ IF ret.exc # NoExc
       THEN /\ response' = [status |-> IF ret.exc.kind = "RuntimeError" THEN 429 ELSE 500]
            /\ UNCHANGED <<db, nSessions>>
       ELSE /\ nSessions' = nSessions + 1
            /\ \E fault \in DbFaults :
                /\ db' = AfterSession(db,
                            StoreSocialPost(db, Get(req.body.v, "user_id"),
                                            Get(req.body.v, "company_url"),
                                            run.topic, run.platform, ret.value),
                            fault)
                /\ response' = [status |-> IF GetSession(fault).exc # NoExc THEN 500 ELSE 200]
    /\ pc' = "done"
    /\ UNCHANGED <<req, run, svc, calls, ret, nAgentCalls>>
    /\ UNCHANGED <<fnVars, db0>>

-----------------------------------------------------------------------------
(* direct calls of the pipeline, as in blog_workflow.py's __main__ *)

RunTopics == {None, Str(<<>>), Str(<<"t">>)}
RunPrompts == {None, Str(<<>>), Str(<<"p">>)}

\* pipeline.run(topic, prompt)
Direct_Run ==
    /\ pc = "idle"
    /\ \E topic \in RunTopics, prompt \in RunPrompts :
        /\ req' = [kind |-> "run", topic |-> topic, prompt |-> prompt]
        /\ run' = [RunIdle EXCEPT !.caller = "direct", !.topic = topic, !.prompt = prompt]
    /\ pc' = "run_begin"
    /\ UNCHANGED <<svc, calls, ret, db, nAgentCalls, nSessions, response>>
    /\ UNCHANGED <<fnVars, db0>>

\* pipeline.run_social_post(topic, platform)
Direct_RunSocialPost ==
    /\ pc = "idle"
    /\ \E platform \in SocialPlatforms \ {Missing, Num(5)} :
        /\ req' = [kind |-> "run_social_post", topic |-> Str(<<"t">>), platform |-> platform]
        /\ run' = [RunIdle EXCEPT !.caller = "direct", !.topic = Str(<<"t">>),
                                  !.platform = platform]
    /\ pc' = "rsp_research"
    /\ UNCHANGED <<svc, calls, ret, db, nAgentCalls, nSessions, response>>
    /\ UNCHANGED <<fnVars, db0>>

\* the direct call has returned or raised
Direct_Done ==
    /\ pc \in {"run_exit", "rsp_exit"}
    /\ run.caller = "direct"
    /\ pc' = "done"
    /\ UNCHANGED <<req, run, svc, calls, ret, db, nAgentCalls, nSessions, response>>
    /\ UNCHANGED <<fnVars, db0>>

-----------------------------------------------------------------------------
(* the server: one request, on a database that is empty or holds the blog  *)
(* row of an earlier request of the same user and company                  *)

ExistingRow ==
    [id |-> 1, user_id |-> Str(<<"u">>), company_url |-> Str(<<"c">>),
     topic |-> <<MakeEntry(Str(<<"t">>), S_false)>>, status |-> "COMPLETED",
     blog_content |-> Str(<<"f","i","n","a","l">>), social |-> <<>>]

InitialDbs == {<<>>, <<ExistingRow>>}

AppIdle ==
    /\ pc = "idle"
    /\ req = [kind |-> "none"]
    /\ run = RunIdle
    /\ svc = SvcIdle
    /\ calls = <<>>
    /\ ret = Returned(None)
    /\ nAgentCalls = 0
    /\ nSessions = 0
    /\ response = NoResponse

SigIdle ==
    /\ sigText = None
    /\ sigResult = "unset"
    /\ sigPc = "off"

FbIdle ==
    /\ fbSubject = None
    /\ fbKb = [kind |-> "none", docs |-> <<>>]
    /\ fbResult = Unset

SessIdle ==
    /\ sessUse = "none"
    /\ sessEnv = [body |-> "returns", commit |-> "ok", rollback |-> "ok", close |-> "ok"]
    /\ sessLog = <<>>
    /\ sessExc = NoExc
    /\ sessPc = "off"

NoObject == [kind |-> "None", id |-> 0]

RaceIdle ==
    /\ rcDb = <<>>
    /\ rcUnique = FALSE
    /\ rcThreads = <<>>

KbIdle ==
    /\ kbConfig = [openai |-> FALSE, openrouter |-> FALSE, gemini |-> TRUE,
                   url |-> "http://localhost:6333", provider |-> "auto"]
    /\ kbCached = NoObject
    /\ kbMade = [qdrant |-> 0, memory |-> 0, probes |-> 0]
    /\ kbLog = <<>>

Init ==
    /\ AppIdle
    /\ db \in InitialDbs
    /\ db0 = db
    /\ SigIdle
    /\ FbIdle
    /\ SessIdle
    /\ KbIdle
    /\ RaceIdle

Next ==
    \/ CreateBlog_Begin
    \/ GSB_Begin
    \/ GSB_Item
    \/ GSB_ItemDone
    \/ GSB_SingleDone
    \/ PSB_Begin
    \/ PSB_GenerateTopic
    \/ PSB_OpenBlog
    \/ PSB_StoreCompleted
    \/ PSB_StoreFailed
    \/ CreateBlog_Respond
    \/ Run_Begin
    \/ Run_GenerateTopic
    \/ Run_Research
    \/ Run_RetryResearch
    \/ Run_Fallback
    \/ Run_Plan
    \/ Run_Write
    \/ Run_Optimize
    \/ Run_Finalize
    \/ GenerateSocial_Begin
    \/ RSP_Research
    \/ RSP_Write
    \/ RSP_QA
    \/ GenerateSocial_Store
    \/ Direct_Run
    \/ Direct_RunSocialPost
    \/ Direct_Done

Spec == Init /\ [][Next]_vars

-----------------------------------------------------------------------------
(* The texts _has_research_signal is applied to: up to MaxSegs segments.   *)

MaxSegs == 3

Segments ==
    << Filler19,
       <<"?">>,
       <<".", " ">>,
       <<" ">>,
       <<"\n", "-">>,
       <<"\n", "1", ".">>,
       <<"\n", "B", "u", "l", "l", "e", "t">>,
       <<"\n", "U2022">>,
       <<"Q", "u", "o", "t", "a">>,
       <<"x", "?">> >>

RECURSIVE Concat(_)
Concat(ss) == IF ss = <<>> THEN <<>> ELSE Head(ss) \o Concat(Tail(ss))

SegmentTexts ==
    UNION {{Concat([i \in 1..n |-> Segments[f[i]]]) : f \in [1..n -> 1..Len(Segments)]}
             : n \in 0..MaxSegs}

SignalInputs == {None} \cup {Str(s) : s \in SegmentTexts}

SignalInit ==
    /\ sigText \in SignalInputs
    /\ sigResult = "unset"
    /\ sigPc = "input"
    /\ AppIdle
    /\ db = <<>>
    /\ db0 = <<>>
    /\ FbIdle
    /\ SessIdle
    /\ KbIdle
    /\ RaceIdle

CallHasResearchSignal ==
    /\ sigPc = "input"
    /\ sigResult' = HasResearchSignal(sigText)
    /\ sigPc' = "done"
    /\ UNCHANGED sigText
    /\ UNCHANGED <<fbVars, sessVars, kbVars, raceVars>>
    /\ UNCHANGED appVars

SignalNext == CallHasResearchSignal

SpecSignal == SignalInit /\ [][SignalNext]_vars

-----------------------------------------------------------------------------
(* _structured_fallback_research on its own: any subject, any behaviour of *)
(* the knowledge base                                                      *)

FallbackSubjects == {None, Str(<<>>), Str(<<"t">>), Num(5)}

FallbackInit ==
    /\ fbSubject \in FallbackSubjects
    /\ fbKb \in KbOutcomes
    /\ fbResult = Unset
    /\ AppIdle
    /\ db = <<>>
    /\ db0 = <<>>
    /\ SigIdle
    /\ SessIdle
    /\ KbIdle
    /\ RaceIdle

CallStructuredFallbackResearch ==
    /\ fbResult = Unset
    /\ fbResult' = StructuredFallbackResearch(fbSubject, fbKb)
    /\ UNCHANGED <<fbSubject, fbKb>>
    /\ UNCHANGED <<sigVars, sessVars, kbVars, raceVars>>
    /\ UNCHANGED appVars

FallbackNext == CallStructuredFallbackResearch

SpecFallback == FallbackInit /\ [][FallbackNext]_vars

-----------------------------------------------------------------------------
(* database/session.py: get_session, one use of it, statement by statement *)

\* the `with get_session()` blocks of services.py
SessionUses ==
    {"_process_single_blog: open", "_process_single_blog: completed",
     "_process_single_blog: failed", "fetch_blog", "fetch_blog_by_user",
     "store_social_post"}

\* the body returns, raises an Exception, or raises a BaseException that is
\* no Exception (KeyboardInterrupt, SystemExit)
BodyOutcomes == {"returns", "raises Exception", "raises BaseException"}

SessionEnvs ==
    [body : BodyOutcomes, commit : {"ok", "raises"},
     rollback : {"ok", "raises"}, close : {"ok", "raises"}]

BodyError == Exc("IntegrityError", "raised in the body")
BodyInterrupt == Exc("KeyboardInterrupt", "raised in the body")
CommitError == Exc("OperationalError", "raised by commit")
RollbackError == Exc("OperationalError", "raised by rollback")
CloseError == Exc("OperationalError", "raised by close")

\* `except Exception` (line 37)
CaughtAnything(e) == TRUE
CaughtByExceptException(e) == e.kind # "KeyboardInterrupt"

SessionInit ==
    /\ sessUse \in SessionUses
    /\ sessEnv \in SessionEnvs
    /\ sessLog = <<>>
    /\ sessExc = NoExc
    /\ sessPc = "yield"
    /\ AppIdle
    /\ db = <<>>
    /\ db0 = <<>>
    /\ SigIdle
    /\ FbIdle
    /\ KbIdle
    /\ RaceIdle

SessionIdleRest == UNCHANGED <<sigVars, fbVars, kbVars, raceVars, appVars, sessUse, sessEnv>>

\* what follows an exception raised at line 35 or 36
AfterRaise(e) == IF CaughtByExceptException(e) THEN "rollback" ELSE "close"

\* line 35: the body of the with block runs at the yield
Session_Body ==
    /\ sessPc = "yield"
    /\ IF sessEnv.body = "returns"
       THEN /\ sessPc' = "commit"
            /\ UNCHANGED sessExc
       ELSE LET e == IF sessEnv.body = "raises Exception" THEN BodyError ELSE BodyInterrupt
            IN  /\ sessExc' = e
                /\ sessPc' = AfterRaise(e)
    /\ UNCHANGED sessLog
    /\ SessionIdleRest

\* line 36
Session_Commit ==
    /\ sessPc = "commit"
    /\ sessLog' = Append(sessLog, "commit")
    /\ IF sessEnv.commit = "raises"
       THEN /\ sessExc' = CommitError
            /\ sessPc' = AfterRaise(CommitError)
       ELSE /\ sessPc' = "close"
            /\ UNCHANGED sessExc
    /\ SessionIdleRest

\* lines 37-39: rollback, then the caught exception is raised again; an
\* exception of rollback itself takes its place
Session_Rollback ==
    /\ sessPc = "rollback"
    /\ sessLog' = Append(sessLog, "rollback")
    /\ sessExc' = IF sessEnv.rollback = "raises" THEN RollbackError ELSE sessExc
    /\ sessPc' = "close"
    /\ SessionIdleRest

\* lines 40-41: the finally clause; an exception of close takes the place of
\* the one in flight
Session_Close ==
    /\ sessPc = "close"
    /\ sessLog' = Append(sessLog, "close")
    /\ sessExc' = IF sessEnv.close = "raises" THEN CloseError ELSE sessExc
    /\ sessPc' = "exit"
    /\ SessionIdleRest

SessionNext ==
    \/ Session_Body
    \/ Session_Commit
    \/ Session_Rollback
    \/ Session_Close

SpecSession == SessionInit /\ [][SessionNext]_vars

-----------------------------------------------------------------------------
(* knowledge/knowledge_base.py: get_knowledge_base and _select_embedder *)

MaxKbCalls == 3

\* settings.py raises at import unless a Gemini key is found (lines 135-138),
\* so Config always has one; the other two keys are optional
KbConfigs ==
    [openai : BOOLEAN, openrouter : BOOLEAN, gemini : {TRUE},
     url : {":memory", ":memory:", "http://localhost:6333"},
     provider : {"auto", "openrouter", "gemini", "openai"}]

\* lines 118-128
ProviderOrder(preference) ==
    CASE preference = "openrouter" -> <<"openrouter", "openai", "gemini">>
      [] preference = "gemini" -> <<"gemini", "openrouter", "openai">>
      [] OTHER -> <<"openai", "openrouter", "gemini">>

\* lines 130-156: the provider whose embedder is constructed, "" when
\* _select_embedder raises ValueError because no provider has a key
SelectEmbedder(config) ==
    LET order == ProviderOrder(config.provider)
        usable == {i \in 1..Len(order) : config[order[i]]}
    IN  IF usable = {} THEN ""
        ELSE order[CHOOSE i \in usable : \A j \in usable : i <= j]

\* line 90: `if _cached_vector_db:` (the cached objects define neither
\* __bool__ nor __len__, so any object is true)
NeverCached(cached) == FALSE
IsCached(cached) == cached # NoObject

\* line 93
NoApiKey(config) == ~config.gemini /\ ~config.openrouter /\ ~config.openai

\* line 96
UsesInMemoryNever(config) == FALSE
UsesInMemory(config) == config.url = ":memory"

\* what the embedder's constructor, the Qdrant constructor and the
\* get_collections probe do during one call; the probe is skipped when the
\* Qdrant object has no `client` attribute
QdrantOutcomes ==
    {[embedder |-> "raises", qdrant |-> "not reached", probe |-> "not reached"],
     [embedder |-> "ok", qdrant |-> "raises", probe |-> "not reached"],
     [embedder |-> "ok", qdrant |-> "ok", probe |-> "no client"],
     [embedder |-> "ok", qdrant |-> "ok", probe |-> "raises"],
     [embedder |-> "ok", qdrant |-> "ok", probe |-> "ok"]}

NothingTried == [embedder |-> "not reached", qdrant |-> "not reached", probe |-> "not reached"]

KbValueError == Exc("ValueError", "At least one LLM API key must be configured")

KbInit ==
    /\ kbConfig \in KbConfigs
    /\ kbCached = NoObject
    /\ kbMade = [qdrant |-> 0, memory |-> 0, probes |-> 0]
    /\ kbLog = <<>>
    /\ AppIdle
    /\ db = <<>>
    /\ db0 = <<>>
    /\ SigIdle
    /\ FbIdle
    /\ SessIdle
    /\ RaceIdle

\* one entry of kbLog
KbCall(tried, exc, obj, made) ==
    [tried |-> tried, exc |-> exc, obj |-> obj,
     qdrant |-> made.qdrant - kbMade.qdrant,
     memory |-> made.memory - kbMade.memory,
     probes |-> made.probes - kbMade.probes]

\* lines 78-84 and 14-26: a new _InMemoryKnowledge
NewMemory(made) == [kind |-> "_InMemoryKnowledge", id |-> made.qdrant + made.memory + 1]
\* lines 103-108: a new Qdrant
NewQdrant(made) == [kind |-> "Qdrant", id |-> made.qdrant + made.memory + 1]

\* lines 87-114, one whole call
GetKnowledgeBase ==
    /\ Len(kbLog) < MaxKbCalls
    /\ IF IsCached(kbCached)
       THEN /\ kbLog' = Append(kbLog, KbCall(NothingTried, NoExc, kbCached, kbMade))
            /\ UNCHANGED <<kbCached, kbMade>>
       ELSE IF NoApiKey(kbConfig)
       THEN /\ kbLog' = Append(kbLog, KbCall(NothingTried, KbValueError, NoObject, kbMade))
            /\ UNCHANGED <<kbCached, kbMade>>
       ELSE IF UsesInMemory(kbConfig)
       THEN /\ kbCached' = NewMemory(kbMade)
            /\ kbMade' = [kbMade EXCEPT !.memory = @ + 1]
            /\ kbLog' = Append(kbLog, KbCall(NothingTried, NoExc, kbCached', kbMade'))
       ELSE \E o \in QdrantOutcomes :
            LET selected == SelectEmbedder(kbConfig)
                \* the try block, lines 100-111
                tried == IF selected = ""
                         THEN [embedder |-> "raises", qdrant |-> "not reached",
                               probe |-> "not reached"]
                         ELSE o
                afterTry == [kbMade EXCEPT
                                !.qdrant = @ + (IF tried.qdrant = "ok" THEN 1 ELSE 0),
                                !.probes = @ + (IF tried.probe \in {"ok", "raises"} THEN 1 ELSE 0)]
                raised == "raises" \in {tried.embedder, tried.qdrant, tried.probe}
            IN  IF raised
                THEN \* lines 112-114
                     /\ kbCached' = NewMemory(afterTry)
                     /\ kbMade' = [afterTry EXCEPT !.memory = @ + 1]
                     /\ kbLog' = Append(kbLog, KbCall(tried, NoExc, kbCached', kbMade'))
                ELSE /\ kbCached' = NewQdrant(kbMade)
                     /\ kbMade' = afterTry
                     /\ kbLog' = Append(kbLog, KbCall(tried, NoExc, kbCached', kbMade'))
    /\ UNCHANGED kbConfig
    /\ UNCHANGED <<sigVars, fbVars, sessVars, raceVars, appVars>>

KbNext == GetKnowledgeBase

SpecKb == KbInit /\ [][KbNext]_vars

-----------------------------------------------------------------------------
(* Two requests for the same user and company served at the same time.    *)
(* Each request's thread opens its own session (services.py 78 and 185),  *)
(* so its statements interleave freely with the other's; a session reads  *)
(* the committed rows and its writes reach them when it commits.          *)

RaceThreads == {1, 2}
RaceKinds == {"POST /blogs", "POST /generate-social"}
RaceUser == Str(<<"u">>)
RaceCompany == Str(<<"c">>)
RaceTopic(t) == IF t = 1 THEN Str(<<"a">>) ELSE Str(<<"b">>)
RacePlatform == Str(S_reddit)
RaceContent == Str(<<"p">>)

\* the row of the pair that an earlier request left, if any
RaceEarlierRows ==
    {<<>>, CreateBlogEntry(<<>>, RaceUser, Str(<<"t">>), RaceCompany, "COMPLETED", S_false)}

\* no Blog object loaded
NoBlog ==
    [id |-> 0, user_id |-> None, company_url |-> None, topic |-> <<>>, status |-> "",
     blog_content |-> None, social |-> <<>>]

IntegrityError == Exc("IntegrityError", "duplicate key value violates unique constraint")

\* a thread before line 20: nothing loaded, nothing to write
RaceThread(kind, t) ==
    [kind |-> kind, topic |-> RaceTopic(t), pc |-> "lookup", blog |-> NoBlog,
     new |-> FALSE, dirty |-> {}, exc |-> NoExc, overlapped |-> FALSE]

RaceInit ==
    /\ rcDb \in RaceEarlierRows
    /\ rcUnique \in BOOLEAN
    /\ \E k1 \in RaceKinds, k2 \in RaceKinds :
          rcThreads = <<RaceThread(k1, 1), RaceThread(k2, 2)>>
    /\ AppIdle
    /\ db = <<>>
    /\ db0 = <<>>
    /\ SigIdle
    /\ FbIdle
    /\ SessIdle
    /\ KbIdle

RaceRest == UNCHANGED <<sigVars, fbVars, sessVars, kbVars, appVars, rcUnique>>

RaceOther(t) == 3 - t

\* whether the other request is inside its session while thread t takes a step
RaceInSession(t) == rcThreads[t].pc \in {"append", "create", "post", "commit"}

\* thread t moves on with its record changed to `th`
RaceStep(t, th) ==
    rcThreads' = [rcThreads EXCEPT ![t] =
        [th EXCEPT !.overlapped = @ \/ RaceInSession(RaceOther(t))]]

\* the step after _get_or_create_blog: line 193 for store_social_post, else
\* the end of the with block
RaceAfterBlog(kind) == IF kind = "POST /generate-social" THEN "post" ELSE "commit"

\* the body raised: get_session rolls back, closes and re-raises
RaceFailed(th, e) == [th EXCEPT !.pc = "failed", !.exc = e, !.new = FALSE, !.dirty = {}]

\* services.py line 20: the query sees the committed rows and loads the first
Race_Lookup(t) ==
    LET th == rcThreads[t]
        i == GetBlogByUserAndCompany(rcDb, RaceUser, RaceCompany)
    IN  /\ th.pc = "lookup"
        /\ RaceStep(t, [th EXCEPT !.blog = IF i = 0 THEN NoBlog ELSE rcDb[i],
                                  !.pc = IF i = 0 THEN "create" ELSE "append"])
        /\ UNCHANGED rcDb
        /\ RaceRest

\* services.py lines 21-37: the topic is appended to the list that was loaded
Race_Append(t) ==
    LET th == rcThreads[t]
        fresh == Truthy(th.topic) /\ th.topic \notin EntryContents(th.blog.topic)
    IN  /\ th.pc = "append"
        /\ RaceStep(t, [th EXCEPT
              !.blog.topic = IF fresh THEN Append(@, MakeEntry(th.topic, S_false)) ELSE @,
              !.dirty = IF fresh THEN @ \cup {"topic"} ELSE @,
              !.pc = RaceAfterBlog(th.kind)])
        /\ UNCHANGED rcDb
        /\ RaceRest

\* services.py lines 39-49: a new row is added to the session; where the table
\* allows one row per pair, the INSERT fails once another row is committed
Race_Create(t) ==
    LET th == rcThreads[t]
        taken == rcUnique /\ GetBlogByUserAndCompany(rcDb, RaceUser, RaceCompany) # 0
        row == CreateBlogEntry(<<>>, RaceUser, th.topic, RaceCompany, "PENDING", S_false)[1]
    IN  /\ th.pc = "create"
        /\ RaceStep(t, IF taken
                       THEN RaceFailed(th, IntegrityError)
                       ELSE [th EXCEPT !.blog = row, !.new = TRUE,
                                       !.pc = RaceAfterBlog(th.kind)])
        /\ UNCHANGED rcDb
        /\ RaceRest

\* services.py line 193: the post is appended to the loaded object's posts
Race_Post(t) ==
    LET th == rcThreads[t]
    IN  /\ th.pc = "post"
        /\ RaceStep(t, [th EXCEPT
              !.blog = AppendSocialPost(<<@>>, 1, RacePlatform, RaceContent, th.topic)[1],
              !.dirty = @ \cup {"social"},
              !.pc = "commit"])
        /\ UNCHANGED rcDb
        /\ RaceRest

\* the committed rows once thread th's session commits: a new row takes the
\* next id, a loaded row has its changed columns overwritten
RaceCommitted(d, th) ==
    IF th.new
    THEN Append(d, [th.blog EXCEPT !.id = Len(d) + 1])
    ELSE [d EXCEPT ![th.blog.id] =
            [@ EXCEPT !.topic = IF "topic" \in th.dirty THEN th.blog.topic ELSE @,
                      !.social = IF "social" \in th.dirty THEN th.blog.social ELSE @]]

\* session.py lines 34-41: commit, or rollback and re-raise when it fails
Race_Commit(t) ==
    LET th == rcThreads[t]
        taken == th.new /\ rcUnique
                 /\ GetBlogByUserAndCompany(rcDb, RaceUser, RaceCompany) # 0
    IN  /\ th.pc = "commit"
        /\ IF taken
           THEN /\ RaceStep(t, RaceFailed(th, IntegrityError))
                /\ UNCHANGED rcDb
           ELSE /\ RaceStep(t, [th EXCEPT !.pc = "done", !.new = FALSE, !.dirty = {}])
                /\ rcDb' = RaceCommitted(rcDb, th)
        /\ RaceRest

RaceNext ==
    \E t \in RaceThreads :
        \/ Race_Lookup(t)
        \/ Race_Append(t)
        \/ Race_Create(t)
        \/ Race_Post(t)
        \/ Race_Commit(t)

SpecRace == RaceInit /\ [][RaceNext]_vars

-----------------------------------------------------------------------------
(* C5: _has_research_signal(text) is True exactly when the stripped,       *)
(* lower-cased text is non-empty, contains none of the 14 failure markers, *)
(* has at least 40 characters and contains at least one of the six signal  *)
(* delimiters; None, empty and whitespace-only text give False.            *)

\* the text between its first and its last non-whitespace character, lower-cased
C5_Trimmed(s) ==
    LET solid == {i \in 1..Len(s) : s[i] \notin Whitespace}
    IN  IF solid = {} THEN <<>>
        ELSE LET lo == CHOOSE i \in solid : \A j \in solid : i <= j
                 hi == CHOOSE i \in solid : \A j \in solid : j <= i
             IN  [k \in 1..(hi - lo + 1) |-> LowerChar(s[lo + k - 1])]

C5_Occurs(sub, s) ==
    \E k \in 1..Len(s) :
        /\ k + Len(sub) - 1 <= Len(s)
        /\ \A j \in 1..Len(sub) : s[k + j - 1] = sub[j]

C5_Delims ==
    { <<"\n","-">>, <<"\n","1",".">>, <<"\n","b","u","l","l","e","t">>,
      <<"\n","U2022">>, <<"?">>, <<".", " ">> }

C5_Expected(text) ==
    /\ IsStr(text)
    /\ LET n == C5_Trimmed(text.v)
       IN  /\ n # <<>>
           /\ \A i \in 1..14 : ~C5_Occurs(FailureMarkers[i], n)
           /\ Len(n) >= 40
           /\ \E d \in C5_Delims : C5_Occurs(d, n)

C5_SignalCharacterised ==
    /\ Len(FailureMarkers) = 14
    /\ sigPc = "done" => (sigResult = C5_Expected(sigText))

\* a text of exactly 40 characters after stripping is accepted
C5_Witness ==
    /\ sigPc = "done"
    /\ sigResult = TRUE
    /\ Len(Strip(sigText.v)) = 40

-----------------------------------------------------------------------------
(* Properties of AEOBlogPipeline.run *)

RunPcs ==
    {"run_begin", "run_topic", "run_research", "run_retry", "run_fallback",
     "run_plan", "run_write", "run_optimize", "run_finalize", "run_exit"}

CallsOf(agent) == {i \in 1..Len(calls) : calls[i].agent = agent}

\* the arguments run was called with
RunArgs ==
    IF run.caller = "direct" THEN [topic |-> req.topic, prompt |-> req.prompt]
    ELSE [topic |-> svc.topic, prompt |-> None]

\* (content or "").strip() of a researcher call
Stripped(call) == Str(Strip(IF Truthy(call.content) THEN call.content.v ELSE <<>>))

\* _has_research_signal of a stripped researcher output, tabulated once for the
\* outputs the researcher can give
SignalTable ==
    [text \in {Str(Strip(IF Truthy(c) THEN c.v ELSE <<>>)) : c \in ResearchContents}
        |-> HasResearchSignal(text)]
PassesSignal(text) ==
    IF text \in DOMAIN SignalTable THEN SignalTable[text] ELSE HasResearchSignal(text)

FirstResearch == calls[CHOOSE i \in CallsOf("researcher") : \A j \in CallsOf("researcher") : i <= j]
LastResearch == calls[CHOOSE i \in CallsOf("researcher") : \A j \in CallsOf("researcher") : j <= i]

(* C1: in every run that returns, the agents are called in the order       *)
(* [topic generator,] researcher (once or twice), planner, writer,         *)
(* optimizer, finalizer: the last four exactly once, each after the stage  *)
(* before it has returned, and the topic generator exactly when a prompt   *)
(* and no topic was given.                                                 *)
C1_FixedOrder ==
    (pc = "run_exit" /\ ret.exc = NoExc) =>
        \E n \in {1, 2} :
            /\ [i \in 1..Len(calls) |-> calls[i].agent] =
                  (IF Truthy(RunArgs.prompt) /\ ~Truthy(RunArgs.topic)
                   THEN <<"topic_generator">> ELSE <<>>)
                  \o [i \in 1..n |-> "researcher"]
                  \o <<"planner", "writer", "optimizer", "finalizer">>
            /\ \A i \in 1..Len(calls) :
                  calls[i].agent # "researcher" => calls[i].exc = NoExc
            /\ FirstResearch.exc = NoExc

\* a run that generated its topic, retried the research and returned
C1_Witness ==
    /\ pc = "run_exit"
    /\ ret.exc = NoExc
    /\ Len(calls) = 7
    /\ calls[1].agent = "topic_generator"

(* C2: within one run the researcher is called at most twice, and the      *)
(* second call (with the fallback prompt) is made exactly when the first   *)
(* call's stripped output fails _has_research_signal.                      *)
C2_RetryOnce ==
    (pc \in RunPcs /\ CallsOf("researcher") # {}) =>
        LET n == Cardinality(CallsOf("researcher"))
            firstFails == ~PassesSignal(Stripped(FirstResearch))
        IN  /\ n <= 2
            /\ n = 2 => /\ FirstResearch.exc = NoExc
                        /\ FirstResearch.prompt.text = "research"
                        /\ LastResearch.prompt.text = "fallback"
            \* between the first call and the retry the run is at "run_retry"
            /\ (FirstResearch.exc = NoExc /\ pc # "run_retry") => (n = 2 <=> firstFails)
            /\ pc = "run_retry" => (n = 1 /\ firstFails)

\* the planner is about to be called after a retry that returned
C2_Witness ==
    /\ pc = "run_plan"
    /\ Cardinality(CallsOf("researcher")) = 2
    /\ LastResearch.exc = NoExc

\* the researcher output the run ends up with: the retry's when the retry
\* returned, else the first call's
C3_Output ==
    IF Cardinality(CallsOf("researcher")) = 2 /\ LastResearch.exc = NoExc
    THEN Stripped(LastResearch)
    ELSE Stripped(FirstResearch)

C3_IsFallbackFor(text, topic) ==
    /\ text.t = "sections"
    /\ Len(text.v) >= 5
    /\ \A i \in 1..5 : text.v[i] = [title |-> StaticTitles[i], subject |-> topic]

(* C3: the research text handed to the planner and to the writer is the    *)
(* structured fallback summary for the topic exactly when the researcher   *)
(* output still fails _has_research_signal after the retry (a retry that   *)
(* raised leaves the first output in place); otherwise it is the stripped  *)
(* researcher output that passed, the first one if that passed.            *)
C3_ResearchHandedOn ==
    CallsOf("planner") # {} =>
        LET stillFails == ~PassesSignal(C3_Output)
            twice == Cardinality(CallsOf("researcher")) = 2
        IN  \A i \in CallsOf("planner") \cup CallsOf("writer") :
                LET handed == calls[i].prompt.research
                IN  IF stillFails
                    THEN C3_IsFallbackFor(handed, run.topic)
                    ELSE /\ handed.t = "str"
                         /\ handed = C3_Output
                         /\ handed = Stripped(IF twice THEN LastResearch
                                                        ELSE FirstResearch)

\* the writer was handed the fallback summary after the retry raised
C3_Witness ==
    /\ CallsOf("writer") # {}
    /\ Cardinality(CallsOf("researcher")) = 2
    /\ LastResearch.exc # NoExc
    /\ \A i \in CallsOf("writer") : calls[i].prompt.research.t = "sections"

-----------------------------------------------------------------------------
(* Properties of _structured_fallback_research *)

C4_SomeNonBlankDoc ==
    /\ fbKb.kind = "returns docs"
    /\ \E i \in 1..Len(fbKb.docs) :
          /\ fbKb.docs[i].t = "str"
          /\ \E j \in 1..Len(fbKb.docs[i].v) : fbKb.docs[i].v[j] \notin Whitespace

(* C4: for any subject the result is the five static sections, in the      *)
(* order Market Snapshot, Adoption & Investment, Audience Pain Points,     *)
(* People-Also-Ask Style Questions, Opportunities & Next Steps; nothing    *)
(* more when the knowledge-base lookup raises or yields no document with   *)
(* non-blank content, and otherwise one Knowledge Base Highlights section  *)
(* after them.                                                             *)
C4_FallbackSections ==
    fbResult # Unset =>
        /\ fbResult.t = "sections"
        /\ Len(fbResult.v) >= 5
        /\ [i \in 1..5 |-> fbResult.v[i].title] =
              << "Market Snapshot", "Adoption & Investment", "Audience Pain Points",
                 "People-Also-Ask Style Questions", "Opportunities & Next Steps" >>
        /\ \A i \in 1..5 : fbResult.v[i].subject = fbSubject
        /\ IF C4_SomeNonBlankDoc
           THEN /\ Len(fbResult.v) = 6
                /\ fbResult.v[6].title = "Knowledge Base Highlights"
                /\ fbResult.v[6].lines # <<>>
           ELSE Len(fbResult.v) = 5

\* a blank first document and a second one that gives the only line
C4_Witness ==
    /\ fbResult # Unset
    /\ Len(fbResult.v) = 6
    /\ Len(fbResult.v[6].lines) = 1
    /\ fbResult.v[6].lines[1].idx = 2

-----------------------------------------------------------------------------
(* Properties of POST /blogs and generate_and_store_blog *)

BlogRequestDone == pc = "done" /\ req.kind = "POST /blogs"

(* C6: POST /blogs answers 400 when the body is no object or a ValueError  *)
(* was raised, 429 for a RuntimeError, 500 for any other exception, and    *)
(* 201 only when generate_and_store_blog returned.                         *)
C6_StatusMapping ==
    BlogRequestDone =>
        /\ response.status \in {201, 400, 429, 500}
        /\ response.status = 400 <=> (req.body.t # "dict" \/ ret.exc.kind = "ValueError")
        /\ response.status = 429 <=> ret.exc.kind = "RuntimeError"
        /\ response.status = 500 <=> ret.exc.kind \notin {"none", "ValueError", "RuntimeError"}
        /\ response.status = 201 <=> (req.body.t = "dict" /\ ret.exc = NoExc)

\* a quota error of an agent answered 429
C6_Witness ==
    /\ BlogRequestDone
    /\ response.status = 429
    /\ ret.exc.kind = "RuntimeError"

BlogRequest == req.kind = "POST /blogs" /\ req.body.t = "dict"

NoSideEffect == nAgentCalls = 0 /\ nSessions = 0 /\ db = db0

C7_MissingRequired ==
    \/ ~Truthy(Get(req.body.v, "company_url"))
    \/ ~Truthy(Get(req.body.v, "user_id"))

C7_NeitherTopicNorPrompt ==
    /\ ~C7_MissingRequired
    /\ Get(req.body.v, "prompt").t # "list"
    /\ ~Truthy(Get(req.body.v, "topic"))
    /\ ~Truthy(Get(req.body.v, "prompt"))

(* C7: a request without company_url or user_id is rejected by             *)
(* generate_and_store_blog with a ValueError, and a single payload with    *)
(* neither topic nor prompt by _process_single_blog with a ValueError; in  *)
(* both cases no agent is called, no session is opened and no blog row is  *)
(* created or modified.                                                    *)
C7_RejectedBeforeSideEffects ==
    (BlogRequest /\ (C7_MissingRequired \/ C7_NeitherTopicNorPrompt)) =>
        /\ NoSideEffect
        /\ pc \in {"gsb_begin", "psb_begin", "psb_exit", "gsb_exit", "done"}
        /\ pc \in {"psb_exit", "gsb_exit", "done"} => ret.exc.kind = "ValueError"

\* _process_single_blog has rejected a payload with neither topic nor prompt
C7_Witness ==
    /\ BlogRequest
    /\ C7_NeitherTopicNorPrompt
    /\ pc = "psb_exit"
    /\ ret.exc = Exc("ValueError", "Missing required field: 'topic' or 'prompt'")

-----------------------------------------------------------------------------
(* Properties of POST /generate-social *)

SocialRequest == req.kind = "POST /generate-social"

C8_Invalid ==
    \/ req.body.t # "dict"
    \/ ~Truthy(Get(req.body.v, "topic"))
    \/ ~Truthy(Get(req.body.v, "platform"))
    \/ ~Truthy(Get(req.body.v, "user_id"))
    \/ ~Truthy(Get(req.body.v, "company_url"))
    \/ /\ Get(req.body.v, "platform").t = "str"
       /\ Lower(Get(req.body.v, "platform").v) \notin {S_reddit, S_linkedin, S_twitter}

(* C8: POST /generate-social answers 400, calling no agent and leaving the *)
(* database alone, when the body is no object, one of topic, platform,     *)
(* user_id and company_url is missing or empty, or the lower-cased         *)
(* platform is none of reddit, linkedin, twitter; and store_social_post is *)
(* called only after run_social_post has returned content.                 *)
C8_SocialValidation ==
    SocialRequest =>
        /\ C8_Invalid => /\ pc = "done"
                         /\ response.status = 400
                         /\ NoSideEffect
        /\ nSessions > 0 =>
              /\ pc = "done"
              /\ ret.exc = NoExc
              /\ [i \in 1..Len(calls) |-> calls[i].exc] = <<NoExc, NoExc, NoExc>>
              /\ calls[3].agent = "social_qa_agent"
              /\ ret.value = calls[3].content

\* an unsupported platform answered 400
C8_Witness ==
    /\ SocialRequest
    /\ req.body.t = "dict"
    /\ Truthy(Get(req.body.v, "topic"))
    /\ Truthy(Get(req.body.v, "user_id"))
    /\ Truthy(Get(req.body.v, "company_url"))
    /\ Get(req.body.v, "platform") = Str(<<"f","a","c","e","b","o","o","k">>)
    /\ response.status = 400

-----------------------------------------------------------------------------
(* Properties of _process_single_blog *)

C9_AtExit == pc = "psb_exit" /\ svc.blog_id # 0

C9_FailedStored ==
    \E i \in 1..Len(svc.sessions) : svc.sessions[i] = SessionUse("failed", "none")

C9_NoDbFault ==
    \A i \in 1..Len(svc.sessions) : svc.sessions[i].fault = "none"

(* C9: when pipeline.run or the COMPLETED update raised, the row's status  *)
(* is FAILED once _process_single_blog has finished and the same exception *)
(* is re-raised. The code breaks this when the session of the FAILED       *)
(* update fails as well.                                                   *)
C9_FailedAlwaysStored ==
    (C9_AtExit /\ svc.exc # NoExc) =>
        /\ db[svc.blog_id].status = "FAILED"
        /\ ret.exc = svc.exc

(* What lines 78-113 do guarantee about the status of the row:             *)
(* a blog row the call creates is PENDING while the pipeline               *)
(* runs; when pipeline.run returns and the update commits the row is       *)
(* COMPLETED and is what the call returns; when pipeline.run or the        *)
(* COMPLETED update raises and the FAILED update commits, the row is       *)
(* FAILED and the same exception is re-raised; when the FAILED update      *)
(* fails too, the database error is raised instead. If no database         *)
(* operation failed, a row the call created is not PENDING at the end.     *)
StatusLifecycle ==
    /\ (pc \in RunPcs /\ run.caller = "psb" /\ svc.created) =>
            db[svc.blog_id].status = "PENDING"
    /\ C9_AtExit =>
        /\ svc.exc = NoExc =>
              /\ ret.exc = NoExc
              /\ db[svc.blog_id].status = "COMPLETED"
              /\ ret.value = ToDict(db[svc.blog_id])
        /\ (svc.exc # NoExc /\ C9_FailedStored) =>
              /\ db[svc.blog_id].status = "FAILED"
              /\ ret.exc = svc.exc
        /\ (svc.exc # NoExc /\ ~C9_FailedStored) => ret.exc = DbError
        /\ (svc.created /\ C9_NoDbFault) => db[svc.blog_id].status # "PENDING"

\* the pipeline raised, the new row was marked FAILED and the error re-raised
FailedAndReraised ==
    /\ C9_AtExit
    /\ svc.created
    /\ svc.exc.kind = "RuntimeError"
    /\ db[svc.blog_id].status = "FAILED"
    /\ ret.exc = svc.exc

-----------------------------------------------------------------------------
(* Properties of generate_and_store_blog with a list of prompts *)

ListRequest == BlogRequest /\ svc.mode = "list"

C10_IsFailed(result, p) ==
    /\ result.t = "dict"
    /\ DOMAIN result.v = {"prompt", "error", "status"}
    /\ result.v.prompt = p
    /\ result.v.status = "FAILED"

C10_IsRow(result) ==
    /\ result.t = "dict"
    /\ "id" \in DOMAIN result.v

(* C10: with a list of prompts (or a string that parses to one) the call   *)
(* does not raise: it returns one result per prompt, in input order; an    *)
(* item that fails is reported as {prompt, error, status: FAILED} and the  *)
(* items after it are still processed; every item is processed without the *)
(* payload's topic, so an empty prompt fails even when the payload has a   *)
(* topic; and the caller's payload is left as it was.                      *)
C10_ListOfPrompts ==
    ListRequest =>
        /\ svc.payload = req.body.v
        /\ Len(svc.results) = svc.idx - 1
        /\ \A i \in 1..Len(svc.results) :
              \/ C10_IsFailed(svc.results[i], svc.prompts[i])
              \/ C10_IsRow(svc.results[i]) /\ Truthy(svc.prompts[i])
        /\ pc \in {"psb_begin", "psb_topic", "psb_session"} =>
              /\ svc.sub_payload.topic = Missing
              /\ svc.sub_payload.prompt = svc.prompts[svc.idx]
        /\ pc \in {"gsb_exit", "done"} =>
              /\ ret.exc = NoExc
              /\ ret.value = List(svc.results)
              /\ Len(svc.results) = Len(svc.prompts)

\* a stringified list of two prompts: the first item was stored, the second failed
C10_Witness ==
    /\ ListRequest
    /\ pc = "gsb_exit"
    /\ Get(req.body.v, "prompt").t = "str"
    /\ Truthy(Get(req.body.v, "topic"))
    /\ Len(ret.value.v) = 2
    /\ C10_IsRow(ret.value.v[1])
    /\ C10_IsFailed(ret.value.v[2], Str(<<>>))

-----------------------------------------------------------------------------
(* What _has_research_signal accepts *)

C11_BulletMarkers ==
    { <<"\n","-">>, <<"\n","1",".">>, <<"\n","b","u","l","l","e","t">>, <<"\n","U2022">> }

\* the positions of s that lie inside an occurrence of a signal delimiter
C11_Covered(s) ==
    {i \in 1..Len(s) :
        \E d \in C5_Delims : \E k \in 1..i :
            /\ i < k + Len(d)
            /\ k + Len(d) - 1 <= Len(s)
            /\ \A j \in 1..Len(d) : s[k + j - 1] = d[j]}

\* the pieces of text between delimiters that are not blank, counted by the
\* first character of each
C11_Sentences(s) ==
    LET covered == C11_Covered(s)
        solid == {i \in 1..Len(s) : i \notin covered /\ s[i] \notin Whitespace}
    IN  Cardinality({i \in solid :
            \A j \in solid : j < i => \E c \in covered : j < c /\ c < i})

\* the occurrences of a bullet marker
C11_Bullets(s) ==
    Cardinality({<<d, k>> \in C11_BulletMarkers \X (1..Len(s)) :
        /\ k + Len(d) - 1 <= Len(s)
        /\ \A j \in 1..Len(d) : s[k + j - 1] = d[j]})

(* C11: every text _has_research_signal accepts has at least 40 characters *)
(* and at least 2 sentences or bullets. The code accepts a text with one   *)
(* delimiter hit, so a single question of 40 characters passes.            *)
C11_AcceptedHasTwoSentencesOrBullets ==
    (sigPc = "done" /\ sigResult = TRUE) =>
        /\ Len(sigText.v) >= 40
        /\ C11_Sentences(C5_Trimmed(sigText.v)) + C11_Bullets(C5_Trimmed(sigText.v)) >= 2

\* an accepted text that is one question of 40 characters with no bullet
C11_OneQuestionAccepted ==
    /\ sigPc = "done"
    /\ sigResult = TRUE
    /\ sigText = Str(Filler19 \o Filler19 \o <<"x", "?">>)
    /\ C11_Sentences(C5_Trimmed(sigText.v)) = 1
    /\ C11_Bullets(C5_Trimmed(sigText.v)) = 0

\* what lines 64-72 do enforce: 40 characters after strip() and one delimiter
AcceptedIsLongWithADelimiter ==
    (sigPc = "done" /\ sigResult = TRUE) =>
        /\ Len(Strip(sigText.v)) >= MinResearchLen
        /\ C11_Covered(C5_Trimmed(sigText.v)) # {}

-----------------------------------------------------------------------------
(* Properties of get_session *)

C12_Count(name) == Cardinality({i \in 1..Len(sessLog) : sessLog[i] = name})

C12_BodyRaised == sessEnv.body # "returns"
C12_CommitRaised == sessEnv.body = "returns" /\ sessEnv.commit = "raises"

\* the exception the body or the commit raised
C12_Raised ==
    IF sessEnv.body = "raises Exception" THEN BodyError
    ELSE IF sessEnv.body = "raises BaseException" THEN BodyInterrupt
    ELSE IF sessEnv.commit = "raises" THEN CommitError
    ELSE NoExc

(* C12: for every use of get_session, commit is attempted exactly when the *)
(* body finished without an exception, rollback is called exactly when the *)
(* body or the commit raised, that exception is re-raised to the caller,   *)
(* and the session is closed exactly once.                                 *)
C12_CommitRollbackClose ==
    sessPc = "exit" =>
        /\ C12_Count("commit") = (IF C12_BodyRaised THEN 0 ELSE 1)
        /\ C12_Count("rollback") = (IF C12_BodyRaised \/ C12_CommitRaised THEN 1 ELSE 0)
        /\ sessExc = C12_Raised
        /\ C12_Count("close") = 1

(* C12, amended: commit is attempted exactly when the body finished        *)
(* without an exception; rollback is called exactly when the body raised   *)
(* an Exception or the commit raised, and not for a BaseException that is  *)
(* no Exception; the exception that reaches the caller is the one the body *)
(* or the commit raised unless rollback or close raises, whose exception   *)
(* then takes its place; the session is closed exactly once, last, on      *)
(* every path.                                                             *)
C12_SessionProtocol ==
    /\ C12_Count("commit") <= 1 /\ C12_Count("rollback") <= 1 /\ C12_Count("close") <= 1
    /\ sessPc = "exit" =>
        LET rolledBack == sessEnv.body = "raises Exception" \/ C12_CommitRaised
        IN  /\ C12_Count("commit") = (IF C12_BodyRaised THEN 0 ELSE 1)
            /\ C12_Count("rollback") = (IF rolledBack THEN 1 ELSE 0)
            /\ C12_Count("close") = 1
            /\ sessLog[Len(sessLog)] = "close"
            /\ sessExc = IF sessEnv.close = "raises" THEN CloseError
                         ELSE IF rolledBack /\ sessEnv.rollback = "raises" THEN RollbackError
                         ELSE C12_Raised
            \* the uses whose session methods other than commit do not fail are
            \* the ones GetSession summarises
            /\ (sessEnv.body # "raises BaseException" /\ sessEnv.rollback = "ok"
                    /\ sessEnv.close = "ok") =>
                 LET g == GetSession(IF sessEnv.body = "raises Exception" THEN "body"
                                     ELSE IF sessEnv.commit = "raises" THEN "commit"
                                     ELSE "none")
                 IN  /\ g.commits = C12_Count("commit")
                     /\ g.rollbacks = C12_Count("rollback")
                     /\ g.closes = C12_Count("close")
                     /\ (g.exc = NoExc) <=> (sessExc = NoExc)

\* a KeyboardInterrupt in the body: the session is closed without rollback
C12_Witness ==
    /\ sessPc = "exit"
    /\ sessEnv.body = "raises BaseException"
    /\ sessLog = <<"close">>
    /\ sessExc = BodyInterrupt

-----------------------------------------------------------------------------
(* Properties of get_knowledge_base *)

(* C13: after the first call of get_knowledge_base that returns, every     *)
(* later call returns the identical cached object and constructs neither a *)
(* Qdrant client nor an in-memory knowledge base.                          *)
C13_CachedAfterFirstReturn ==
    \A i \in 1..Len(kbLog) : \A j \in 1..Len(kbLog) :
        (i < j /\ kbLog[i].exc = NoExc) =>
            /\ kbLog[j].exc = NoExc
            /\ kbLog[j].obj = kbLog[i].obj
            /\ kbLog[j].obj # NoObject
            /\ kbLog[j].qdrant = 0
            /\ kbLog[j].memory = 0
            /\ kbLog[j].probes = 0
            /\ kbCached = kbLog[i].obj

\* the first call fell back after a failed probe; the third returns its object
C13_Witness ==
    /\ Len(kbLog) = 3
    /\ kbLog[1].tried.probe = "raises"
    /\ kbLog[1].obj.kind = "_InMemoryKnowledge"
    /\ kbLog[3].obj = kbLog[1].obj
    /\ kbMade = [qdrant |-> 1, memory |-> 1, probes |-> 1]

C14_SomeKey == kbConfig.gemini \/ kbConfig.openrouter \/ kbConfig.openai

C14_Raised(call) == "raises" \in {call.tried.embedder, call.tried.qdrant, call.tried.probe}

ColonSentinelReachesQdrant ==
    (kbConfig.url = ":memory:" /\ kbLog # <<>>) => kbLog[1].tried # NothingTried

-----------------------------------------------------------------------------
(* Properties of AEOBlogPipeline.run_social_post *)

SocialRun == req.kind \in {"POST /generate-social", "run_social_post"} /\ run.caller # "none"

C15_Agents == [i \in 1..Len(calls) |-> calls[i].agent]

\* the agent the lower-cased platform names, "none" when it names none
C15_Writer ==
    LET lowered == [i \in 1..Len(run.platform.v) |-> LowerChar(run.platform.v[i])]
    IN  IF lowered = <<"r","e","d","d","i","t">> THEN "reddit_agent"
        ELSE IF lowered = <<"l","i","n","k","e","d","i","n">> THEN "linkedin_agent"
        ELSE IF lowered = <<"t","w","i","t","t","e","r">> THEN "twitter_agent"
        ELSE "none"

C15_IsPrefix(a, b) == Len(a) <= Len(b) /\ \A i \in 1..Len(a) : a[i] = b[i]

(* C15: run_social_post calls the researcher, the writer of the            *)
(* lower-cased platform and the QA agent in this order, each once, each    *)
(* after the one before it returned, and returns the QA agent's content;   *)
(* for a platform other than reddit, linkedin and twitter no writer and no *)
(* QA agent is ever called and the method does not return: once the        *)
(* research call has returned its text, it raises ValueError.              *)
C15_SocialPostOrder ==
    SocialRun =>
        /\ C15_IsPrefix(C15_Agents, <<"researcher", C15_Writer, "social_qa_agent">>)
        /\ \A i \in 1..(Len(calls) - 1) : calls[i].exc = NoExc
        /\ (pc = "rsp_exit" /\ ret.exc = NoExc) =>
              /\ C15_Agents = <<"researcher", C15_Writer, "social_qa_agent">>
              /\ calls[3].exc = NoExc
              /\ ret.value = calls[3].content
        /\ C15_Writer = "none" =>
              /\ Len(calls) <= 1
              /\ pc = "rsp_exit" =>
                    /\ ret.exc # NoExc
                    /\ Len(calls) = 1
                    /\ (calls[1].exc = NoExc /\ calls[1].content.t = "str")
                          <=> ret.exc.kind = "ValueError"

\* an unsupported platform: ValueError after the one research call
C15_Witness ==
    /\ SocialRun
    /\ pc = "rsp_exit"
    /\ run.platform = Str(<<"f","a","c","e","b","o","o","k">>)
    /\ ret.exc.kind = "ValueError"
    /\ C15_Agents = <<"researcher">>

\* a mixed-case platform name: the writer of its lower-cased form was called
MixedCasePlatformServed ==
    /\ SocialRun
    /\ pc = "rsp_exit"
    /\ ret.exc = NoExc
    /\ run.platform = Str(<<"R","e","d","d","i","t">>)
    /\ calls[2].agent = "reddit_agent"

-----------------------------------------------------------------------------
(* Properties of two concurrent requests for one user and company *)

C16_BothFinished == \A t \in RaceThreads : rcThreads[t].pc \in {"done", "failed"}

C16_RowsOfPair ==
    {i \in 1..Len(rcDb) : rcDb[i].user_id = RaceUser /\ rcDb[i].company_url = RaceCompany}

(* C16: however the two requests interleave, the pair ends with one blog   *)
(* row, and the topics of both requests are in that row's topic list.      *)
C16_OneRowBothTopics ==
    C16_BothFinished =>
        /\ Cardinality(C16_RowsOfPair) = 1
        /\ \A i \in C16_RowsOfPair :
              {RaceTopic(1), RaceTopic(2)} \subseteq EntryContents(rcDb[i].topic)

\* both requests looked up before either committed, and both created a row
C16_TwoRowsCreated ==
    /\ C16_BothFinished
    /\ \A t \in RaceThreads : rcThreads[t].exc = NoExc
    /\ Cardinality(C16_RowsOfPair) = 2

\* both requests loaded the earlier row, and the later commit overwrote the
\* topic list of the earlier one
TopicUpdateLost ==
    /\ C16_BothFinished
    /\ \A t \in RaceThreads : rcThreads[t].exc = NoExc
    /\ Cardinality(C16_RowsOfPair) = 1
    /\ \E t \in RaceThreads : \A i \in C16_RowsOfPair :
          RaceTopic(t) \notin EntryContents(rcDb[i].topic)

\* one request served after the other: one row, both topics
SerialRequestsKeepBothTopics ==
    (C16_BothFinished /\ \A t \in RaceThreads : ~rcThreads[t].overlapped)
        => /\ Cardinality(C16_RowsOfPair) = 1
           /\ \A i \in C16_RowsOfPair :
                 {RaceTopic(1), RaceTopic(2)} \subseteq EntryContents(rcDb[i].topic)

====
